---- MODULE Spec2Model ----
(***************************************************************************)
(* Model of the hash/displace minimal perfect hash of package mph          *)
(* (mph.go): NewUint64 builds a Table from a sequence of 64-bit            *)
(* fingerprints, Table.Query maps a fingerprint to its ordinal.            *)
(*                                                                         *)
(* A uint64 is a tuple of 8 bytes, least significant first, so that        *)
(* xorshiftMult64 is computed at its full width.  Slot indices, ordinals   *)
(* and seeds are small and kept as integers.                               *)
(***************************************************************************)
EXTENDS Integers, Sequences, FiniteSets

(***************************************************************************)
(* Bounds of the model.                                                    *)
(***************************************************************************)
\* Longest key sequence handed to NewUint64.
MaxN == 4
\* Position of the singleton flag bit in a Seeds entry.  The source uses
\* bit 31 of a uint32; the model keeps the same layout (flag bit on top of
\* a SeedBits-wide payload) at a width whose seed range can be enumerated.
SeedBits == 4

(***************************************************************************)
(* 64-bit unsigned arithmetic on byte tuples.                              *)
(***************************************************************************)
Pow2(n) == 2^n

\* The uint64 whose low byte is lo and whose top byte is hi.
K(lo, hi) == <<lo, 0, 0, 0, 0, 0, 0, hi>>

\* uint64(n) for 0 <= n < 2^31.
U64(n) == <<n % 256, (n \div 256) % 256, (n \div 65536) % 256, n \div 16777216,
            0, 0, 0, 0>>

\* Byte i of the word a, 0 beyond either end.
ByteAt(a, i) == IF i >= 1 /\ i <= 8 THEN a[i] ELSE 0

\* Byte i of a >> n: the high bits of byte i + n/8 under the low bits of
\* the byte above it.
ShrByte(a, n, i) ==
    LET d == n \div 8
        r == n % 8
    IN  (ByteAt(a, i + d) \div Pow2(r))
            + (ByteAt(a, i + d + 1) % Pow2(r)) * Pow2(8 - r)

\* Byte i of a << n: the low bits of byte i - n/8 over the high bits of
\* the byte below it.
ShlByte(a, n, i) ==
    LET d == n \div 8
        r == n % 8
    IN  (ByteAt(a, i - d) % Pow2(8 - r)) * Pow2(r)
            + (ByteAt(a, i - d - 1) \div Pow2(8 - r))

\* x ^ y on bytes.
RECURSIVE BitXor(_, _)
BitXor(a, b) ==
    IF a = 0 THEN b
    ELSE IF b = 0 THEN a
    ELSE ((a + b) % 2) + 2 * BitXor(a \div 2, b \div 2)

\* x >> n, x << n and x ^ y on uint64.
Shr(a, n) ==
    <<ShrByte(a, n, 1), ShrByte(a, n, 2), ShrByte(a, n, 3), ShrByte(a, n, 4),
      ShrByte(a, n, 5), ShrByte(a, n, 6), ShrByte(a, n, 7), ShrByte(a, n, 8)>>
Shl(a, n) ==
    <<ShlByte(a, n, 1), ShlByte(a, n, 2), ShlByte(a, n, 3), ShlByte(a, n, 4),
      ShlByte(a, n, 5), ShlByte(a, n, 6), ShlByte(a, n, 7), ShlByte(a, n, 8)>>
Xor(a, b) ==
    <<BitXor(a[1], b[1]), BitXor(a[2], b[2]), BitXor(a[3], b[3]),
      BitXor(a[4], b[4]), BitXor(a[5], b[5]), BitXor(a[6], b[6]),
      BitXor(a[7], b[7]), BitXor(a[8], b[8])>>

\* x + y on uint64, wrapping at 2^64.
RECURSIVE AddFrom(_, _, _, _)
AddFrom(a, b, i, c) ==
    IF i > 8 THEN <<>>
    ELSE LET s == a[i] + b[i] + c
         IN  <<s % 256>> \o AddFrom(a, b, i + 1, s \div 256)

Add(a, b) == AddFrom(a, b, 1, 0)

\* x * y on uint64, wrapping at 2^64 (schoolbook on bytes).
RECURSIVE SumProd(_, _, _, _)
SumProd(a, b, k, i) ==
    IF i > k THEN 0 ELSE a[i] * b[k + 1 - i] + SumProd(a, b, k, i + 1)

RECURSIVE MulFrom(_, _, _, _)
MulFrom(a, b, k, c) ==
    IF k > 8 THEN <<>>
    ELSE LET s == c + SumProd(a, b, k, 1)
         IN  <<s % 256>> \o MulFrom(a, b, k + 1, s \div 256)

Mul(a, b) == MulFrom(a, b, 1, 0)

\* a < b on uint64.
RECURSIVE LessFrom(_, _, _)
LessFrom(a, b, i) ==
    IF i < 1 THEN FALSE
    ELSE IF a[i] # b[i] THEN a[i] < b[i]
    ELSE LessFrom(a, b, i - 1)

Less(a, b) == LessFrom(a, b, 8)

\* x & y on small non-negative integers.
RECURSIVE BitAnd(_, _)
BitAnd(a, b) ==
    IF a = 0 \/ b = 0 THEN 0
    ELSE (a % 2) * (b % 2) + 2 * BitAnd(a \div 2, b \div 2)

\* hash & mask for a mask below 2^24: only the three low bytes of the hash
\* can survive the mask.
AndMask(x, mask) == BitAnd(x[1] + 256 * x[2] + 65536 * x[3], mask)

\* 2685821657736338717 = 0x2545F4914F6CDD1D
Multiplier == <<29, 221, 108, 79, 145, 244, 69, 37>>

xorshiftMult64(x) ==
    LET x1 == Xor(x, Shr(x, 12))
        x2 == Xor(x1, Shl(x1, 25))
        x3 == Xor(x2, Shr(x2, 27))
    IN  Mul(x3, Multiplier)

RECURSIVE nextPower2From(_, _)
nextPower2From(i, n) == IF i < n THEN nextPower2From(2 * i, n) ELSE i

\* Variant: the smallest power of two above n.
nextPower2Strict(n) == nextPower2From(1, n + 1)

nextPower2(n) == nextPower2From(1, n)


(***************************************************************************)
(* Constants and helpers of the builder.                                   *)
(***************************************************************************)
\* singletonBit = uint32(1 << 31), payloadMask = ^singletonBit.
singletonBit == Pow2(SeedBits)
payloadMask == (2 * singletonBit - 1) - singletonBit

\* uint32(x): the low bits of x that a Seeds entry keeps.
Uint32(x) == x % (2 * singletonBit)

\* len(keys) > (1 << 31): at most this many keys are accepted.
MaxKeys == Pow2(SeedBits)

\* Variant: the search gives up after two seeds.
SeedExhaustedEarly(s) == s >= 3

\* seed >= (1 << 31) ends the seed search.
SeedExhausted(s) == s >= Pow2(SeedBits)

\* The fingerprints the model draws its inputs from: four small values, two
\* per residue class modulo 4, and 2^63, which differs from 0 in bit 63 only.
Universe == {K(0, 0), K(3, 0), K(4, 0), K(7, 0), K(0, 128)}

RECURSIVE SeqsOfLen(_)
SeqsOfLen(n) ==
    IF n = 0 THEN {<<>>}
    ELSE {Append(t, k) : t \in SeqsOfLen(n - 1), k \in Universe}

Inputs == UNION {SeqsOfLen(n) : n \in 0..MaxN}

\* Arrays are indexed from 0 in the source and kept as sequences here.
At(arr, i) == arr[i + 1]
Store(arr, i, v) == [arr EXCEPT ![i + 1] = v]
Zeros(n) == [i \in 1..n |-> 0]

\* Variant: the copy is not sorted.
UnsortedCopy(ks) == ks

\* tmp := append([]uint64(nil), keys...); sort.Slice(tmp, tmp[i] < tmp[j])
RECURSIVE InsertSorted(_, _)
InsertSorted(t, k) ==
    IF t = <<>> THEN <<k>>
    ELSE IF Less(k, Head(t)) THEN <<k>> \o t
    ELSE <<Head(t)>> \o InsertSorted(Tail(t), k)

RECURSIVE SortedCopy(_)
SortedCopy(ks) ==
    IF ks = <<>> THEN <<>>
    ELSE InsertSorted(SortedCopy(Tail(ks)), Head(ks))

\* for i := 1; i < len(tmp); i++ { if tmp[i] == tmp[i-1] ... }
HasAdjacentEqual(t) == \E i \in 2..Len(t) : t[i] = t[i - 1]

\* for idx, k := range keys { h[hash & mask] = append(..., entry{idx+1, hash}) }
\* (positions of a sequence count from 1, so position idx is the source's idx+1)
RECURSIVE BucketFrom(_, _, _, _)
BucketFrom(hh, ks, m, idx) ==
    IF idx > Len(ks) THEN hh
    ELSE LET i == AndMask(ks[idx], m)
             e == [idx |-> idx, hash |-> ks[idx]]
         IN  BucketFrom(Store(hh, i, Append(At(hh, i), e)), ks, m, idx + 1)

Buckets(ks, sz) == BucketFrom([i \in 1..sz |-> <<>>], ks, sz - 1, 1)

\* sort.Slice(h, len(h[i]) > len(h[j])): the sort is not stable, so every
\* arrangement of h in non-increasing bucket size is a possible outcome.
\* (Empty buckets are all equal, their mutual order does not show.)
MaxLenIn(hh, S) == CHOOSE n \in {Len(hh[i]) : i \in S} :
                       \A i \in S : Len(hh[i]) <= n

RECURSIVE SortedOrders(_, _)
SortedOrders(hh, S) ==
    IF S = {} THEN {<<>>}
    ELSE LET n == MaxLenIn(hh, S)
         IN  IF n = 0 THEN {[i \in 1..Cardinality(S) |-> <<>>]}
             ELSE UNION {{<<hh[i]>> \o t : t \in SortedOrders(hh, S \ {i})} :
                            i \in {j \in S : Len(hh[j]) = n}}

\* entries: map[uint64]int32, a missing key reads as 0.
EmptyMap == [i \in {} |-> 0]
Get(e, i) == IF i \in DOMAIN e THEN e[i] ELSE 0
Put(e, i, v) == [j \in (DOMAIN e) \cup {i} |-> IF j = i THEN v ELSE e[j]]

\* i := xorshiftMult64(k.hash+seed) & mask
Slot(hash, s, m) == AndMask(xorshiftMult64(Add(hash, U64(s))), m)

\* Variant: only the scratch claims are consulted, not the permanent ones.
SlotUnclaimed(e, vals, i) == Get(e, i) = 0

\* The body of one seed attempt: claim a slot per member of the bucket, and
\* on the first collision clear the scratch claims.
SlotIsFree(e, vals, i) == Get(e, i) = 0 /\ At(vals, i) = 0

RECURSIVE PlaceFrom(_, _, _, _, _, _)
PlaceFrom(subkeys, n, s, vals, m, e) ==
    IF n > Len(subkeys) THEN [ok |-> TRUE, entries |-> e]
    ELSE LET k == subkeys[n]
             i == Slot(k.hash, s, m)
         IN  IF SlotIsFree(e, vals, i)
             THEN PlaceFrom(subkeys, n + 1, s, vals, m, Put(e, i, k.idx))
             ELSE [ok |-> FALSE, entries |-> EmptyMap]

Place(subkeys, s, vals, m) == PlaceFrom(subkeys, 1, s, vals, m, EmptyMap)

\* for k, v := range entries { values[k] = v }, in the order ord.
RECURSIVE CommitEntries(_, _, _)
CommitEntries(vals, e, ord) ==
    IF ord = <<>> THEN vals
    ELSE CommitEntries(Store(vals, Head(ord), e[Head(ord)]), e, Tail(ord))

RECURSIVE Orders(_)
Orders(S) ==
    IF S = {} THEN {<<>>}
    ELSE UNION {{<<x>> \o t : t \in Orders(S \ {x})} : x \in S}

\* Variant: the seed is stored at idx & mask.
HomeSlotByIdx(subkeys, m) == BitAnd(subkeys[1].idx, m)

\* i := subkeys[0].hash & mask
HomeSlot(subkeys, m) == AndMask(subkeys[1].hash, m)

\* free = append(free, i) for every i with values[i] == 0, ascending.
RECURSIVE FreeFrom(_, _)
FreeFrom(vals, i) ==
    IF i >= Len(vals) THEN <<>>
    ELSE IF At(vals, i) = 0 THEN <<i>> \o FreeFrom(vals, i + 1)
    ELSE FreeFrom(vals, i + 1)

\* Variants: every slot is listed; the scan starts at slot 1.
AllSlots(vals) == [i \in 1..Len(vals) |-> i - 1]
FreeSlotsFromOne(vals) == FreeFrom(vals, 1)

FreeSlots(vals) == FreeFrom(vals, 0)

\* Variant: the stored idx+1 is left as it is.
NoDecrement(vals) == vals

\* values[i]-- for every i with values[i] != 0.
DecrementValues(vals) ==
    [i \in 1..Len(vals) |-> IF vals[i] = 0 THEN 0 ELSE vals[i] - 1]

\* seeds[i] = singletonBit | uint32(dst)
RECURSIVE BitOr(_, _)
BitOr(a, b) ==
    IF a = 0 THEN b
    ELSE IF b = 0 THEN a
    ELSE (IF a % 2 = 1 \/ b % 2 = 1 THEN 1 ELSE 0) + 2 * BitOr(a \div 2, b \div 2)

\* Variant: the payload is one past the assigned slot.
SingletonDescriptorOffByOne(dst) == BitOr(singletonBit, Uint32(dst + 1))

SingletonDescriptor(dst) == BitOr(singletonBit, Uint32(dst))

(***************************************************************************)
(* Table.Query.  Besides the returned ordinal the result records the       *)
(* indices of Seeds and Values that were read (-1: none) and whether a     *)
(* read fell outside its array (a run-time panic in the source).           *)
(***************************************************************************)
NoTable == [Values |-> <<-1>>, Seeds |-> <<>>, Mask |-> -1]
EmptyTable == [Values |-> <<>>, Seeds |-> <<>>, Mask |-> 0]

InRange(arr, i) == i >= 0 /\ i < Len(arr)

Query(t, hash) ==
    IF Len(t.Values) = 0
    THEN [ret |-> -1, panic |-> FALSE, seedIdx |-> -1, valueIdx |-> -1,
          singleton |-> FALSE]
    ELSE LET i == AndMask(hash, t.Mask)
         IN  IF ~InRange(t.Seeds, i)
             THEN [ret |-> 0, panic |-> TRUE, seedIdx |-> i, valueIdx |-> -1,
                   singleton |-> FALSE]
             ELSE LET s == At(t.Seeds, i)
                      single == BitAnd(s, singletonBit) # 0
                      j == IF single THEN BitAnd(s, payloadMask)
                           ELSE Slot(hash, BitAnd(s, payloadMask), t.Mask)
                  IN  [ret |-> IF InRange(t.Values, j) THEN At(t.Values, j) ELSE 0,
                       panic |-> ~InRange(t.Values, j),
                       seedIdx |-> i, valueIdx |-> j, singleton |-> single]

NoQuery == [hash |-> <<>>, ret |-> -2, panic |-> FALSE, seedIdx |-> -1,
            valueIdx |-> -1, singleton |-> FALSE]

(***************************************************************************)
(* State: the caller's key slice, the locals of NewUint64 and the position *)
(* in it, what it returned, and the last Query made on the returned table. *)
(***************************************************************************)
VARIABLES
    keys,       \* the caller's fingerprints, in ordinal order
    pc,         \* position in NewUint64
    tmp,        \* sorted copy used by the duplicate check
    size,       \* number of slots
    h,          \* the buckets
    values,     \* values[slot]: idx+1 while solving, the ordinal afterwards
    seeds,      \* seeds[home slot]
    hidx,       \* index of the bucket being processed
    seed,       \* candidate seed of the bucket being solved
    entries,    \* tentative placements of the current seed attempt
    free,       \* free-list of the singleton allocator
    placed,     \* history: the <<slot, idx>> assignments made so far
    result,     \* "none" while building, then how NewUint64 returned
    table,      \* the returned table
    prev,       \* the table returned by the previous build of the same keys
    q           \* the last query and its outcome

vars == <<keys, pc, tmp, size, h, values, seeds, hidx, seed, entries, free,
          placed, result, table, prev, q>>

locals == <<tmp, size, h, values, seeds, hidx, seed, entries, free, placed>>

mask == size - 1

Init ==
    /\ keys \in Inputs
    /\ pc = "start"
    /\ tmp = <<>>
    /\ size = 0
    /\ h = <<>>
    /\ values = <<>>
    /\ seeds = <<>>
    /\ hidx = 0
    /\ seed = 0
    /\ entries = EmptyMap
    /\ free = <<>>
    /\ placed = {}
    /\ result = "none"
    /\ table = NoTable
    /\ prev = NoTable
    /\ q = NoQuery

Return(res, t) ==
    /\ pc' = "done"
    /\ result' = res
    /\ table' = t

\* mph.go 47-62: the empty input, the size limit and the duplicate check.
Validate ==
    /\ pc = "start"
    /\ IF Len(keys) = 0
       THEN Return("ok", EmptyTable) /\ UNCHANGED tmp
       ELSE IF Len(keys) > MaxKeys
       THEN Return("toomany", NoTable) /\ UNCHANGED tmp
       ELSE /\ tmp' = SortedCopy(keys)
            /\ IF HasAdjacentEqual(tmp')
               THEN Return("duplicate", NoTable)
               ELSE pc' = "bucket" /\ UNCHANGED <<result, table>>
    /\ UNCHANGED <<keys, size, h, values, seeds, hidx, seed, entries, free,
                   placed, prev, q>>

\* mph.go 64-76: allocate the arrays and distribute the keys over the buckets.
Bucket ==
    /\ pc = "bucket"
    /\ size' = nextPower2(Len(keys))
    /\ h' = Buckets(keys, size')
    /\ values' = Zeros(size')
    /\ seeds' = Zeros(size')
    /\ pc' = "sort"
    /\ UNCHANGED <<keys, tmp, hidx, seed, entries, free, placed, result,
                   table, prev, q>>

\* mph.go 79-81: biggest buckets first.
SortBuckets ==
    /\ pc = "sort"
    /\ h' \in SortedOrders(h, 1..Len(h))
    /\ hidx' = 0
    /\ pc' = "solve"
    /\ UNCHANGED <<keys, tmp, size, values, seeds, seed, entries, free,
                   placed, result, table, prev, q>>

\* mph.go 82: hidx < len(h) && len(h[hidx]) > 1
MoreMultiKey == hidx < Len(h) /\ Len(At(h, hidx)) > 1

\* mph.go 83-86: enter the seed search of the next multi-key bucket.
BeginBucket ==
    /\ pc = "solve"
    /\ MoreMultiKey
    /\ seed' = 0
    /\ entries' = EmptyMap
    /\ pc' = "seed"
    /\ UNCHANGED <<keys, tmp, size, h, values, seeds, hidx, free, placed,
                   result, table, prev, q>>

\* mph.go 89-113: one seed attempt.
TrySeed ==
    /\ pc = "seed"
    /\ seed' = seed + 1
    /\ IF SeedExhausted(seed')
       THEN Return("noseed", NoTable) /\ UNCHANGED entries
       ELSE LET r == Place(At(h, hidx), seed', values, mask)
            IN  /\ entries' = r.entries
                /\ pc' = IF r.ok THEN "commit" ELSE "seed"
                /\ UNCHANGED <<result, table>>
    /\ UNCHANGED <<keys, tmp, size, h, values, seeds, hidx, free, placed,
                   prev, q>>

\* mph.go 115-123: make the placements permanent and store the seed.
Commit ==
    /\ pc = "commit"
    /\ \E ord \in Orders(DOMAIN entries) :
          /\ values' = CommitEntries(values, entries, ord)
          /\ placed' = placed \cup {<<i, entries[i]>> : i \in DOMAIN entries}
    /\ seeds' = Store(seeds, HomeSlot(At(h, hidx), mask), Uint32(seed))
    /\ hidx' = hidx + 1
    /\ pc' = "solve"
    /\ UNCHANGED <<keys, tmp, size, h, seed, entries, free, result, table,
                   prev, q>>

\* mph.go 127-135: collect the free slots, turn idx+1 into the ordinal.
CollectFree ==
    /\ pc = "solve"
    /\ ~MoreMultiKey
    /\ free' = FreeSlots(values)
    /\ values' = DecrementValues(values)
    /\ pc' = "single"
    /\ UNCHANGED <<keys, tmp, size, h, seeds, hidx, seed, entries, placed,
                   result, table, prev, q>>

\* mph.go 137: hidx < len(h) && len(h[hidx]) > 0
MoreSingletons == hidx < Len(h) /\ Len(At(h, hidx)) > 0

\* mph.go 138-148: place one singleton in the first free slot.  Indexing an
\* empty free-list is a run-time panic.
PlaceSingleton ==
    /\ pc = "single"
    /\ MoreSingletons
    /\ IF free = <<>>
       THEN /\ Return("panic", NoTable)
            /\ UNCHANGED <<values, seeds, hidx, free, placed>>
       ELSE LET k == At(h, hidx)[1]
                i == AndMask(k.hash, mask)
                dst == free[1]
            IN  /\ free' = Tail(free)
                /\ values' = Store(values, dst, k.idx - 1)
                /\ seeds' = Store(seeds, i, SingletonDescriptor(dst))
                /\ placed' = placed \cup {<<dst, k.idx>>}
                /\ hidx' = hidx + 1
                /\ UNCHANGED <<pc, result, table>>
    /\ UNCHANGED <<keys, tmp, size, h, seed, entries, prev, q>>

\* mph.go 150-154
Finish ==
    /\ pc = "single"
    /\ ~MoreSingletons
    /\ Return("ok", [Values |-> values, Seeds |-> seeds, Mask |-> mask])
    /\ UNCHANGED <<keys, locals, prev, q>>

\* mph.go 157-177: a query on the returned table, for any fingerprint.
DoQuery ==
    /\ pc = "done"
    /\ result = "ok"
    /\ \E hash \in Universe :
          LET r == Query(table, hash)
          IN  q' = [hash |-> hash, ret |-> r.ret, panic |-> r.panic,
                    seedIdx |-> r.seedIdx, valueIdx |-> r.valueIdx,
                    singleton |-> r.singleton]
    /\ UNCHANGED <<keys, pc, locals, result, table, prev>>

\* A second NewUint64 on the same keys (mph_test.go 90-97).
Rebuild ==
    /\ pc = "done"
    /\ result = "ok"
    /\ prev = NoTable
    /\ prev' = table
    /\ pc' = "start"
    /\ tmp' = <<>>
    /\ size' = 0
    /\ h' = <<>>
    /\ values' = <<>>
    /\ seeds' = <<>>
    /\ hidx' = 0
    /\ seed' = 0
    /\ entries' = EmptyMap
    /\ free' = <<>>
    /\ placed' = {}
    /\ result' = "none"
    /\ table' = NoTable
    /\ q' = NoQuery
    /\ UNCHANGED keys

Next ==
    \/ Validate
    \/ Bucket
    \/ SortBuckets
    \/ BeginBucket
    \/ TrySeed
    \/ Commit
    \/ CollectFree
    \/ PlaceSingleton
    \/ Finish
    \/ DoQuery
    \/ Rebuild

Spec == Init /\ [][Next]_vars

(***************************************************************************)
(* Vocabulary of the properties.                                           *)
(***************************************************************************)
N == Len(keys)

Distinct(ks) == \A i, j \in 1..Len(ks) : i # j => ks[i] # ks[j]

IsMember(hash) == \E i \in 1..N : keys[i] = hash

\* NewUint64 returned a table.
Built == pc = "done" /\ result = "ok"

\* The seeds the search may store.
SeedRange == 1..(Pow2(SeedBits) - 1)

\* The slots the members of a bucket are sent to by seed s.
SlotsOf(subkeys, s, m) == [n \in 1..Len(subkeys) |-> Slot(subkeys[n].hash, s, m)]

\* Seed s sends the members of the bucket to pairwise distinct slots, none of
\* them occupied in vals.
ValidSeed(subkeys, s, vals, m) ==
    LET sl == SlotsOf(subkeys, s, m)
    IN  /\ \A a, b \in 1..Len(subkeys) : a # b => sl[a] # sl[b]
        /\ \A a \in 1..Len(subkeys) : At(vals, sl[a]) = 0

\* Two of the fingerprints differ in bit 63 and nowhere else.
TopBitPair(ks) ==
    \E i, j \in 1..Len(ks) :
        /\ \A b \in 1..7 : ks[i][b] = ks[j][b]
        /\ ks[j][8] = ks[i][8] + 128

IsSmallestPow2(sz, n) ==
    /\ \E e \in 0..(MaxN + 2) : sz = Pow2(e)
    /\ sz >= n
    /\ sz = 1 \/ sz \div 2 < n

\* The home slots of the buckets that hold a key, by bucket size.
HomeOf(hash) == BitAnd(hash[1] + 256 * hash[2], size - 1)
BucketAt(slot) == {i \in 1..N : HomeOf(keys[i]) = slot}
MultiHomes == {sl \in 0..(size - 1) : Cardinality(BucketAt(sl)) > 1}
SingleHomes == {sl \in 0..(size - 1) : Cardinality(BucketAt(sl)) = 1}
EmptyHomes == {sl \in 0..(size - 1) : BucketAt(sl) = {}}

PlacedSlots == {p[1] : p \in placed}

RemainingSingles == Cardinality({i \in (hidx + 1)..Len(h) : Len(h[i]) = 1})

Descending(hh) == \A i, j \in 1..Len(hh) : i < j => Len(hh[i]) >= Len(hh[j])

SortedAscending(t) == \A i \in 2..Len(t) : ~Less(t[i], t[i - 1])

SameElements(a, b) ==
    /\ Len(a) = Len(b)
    /\ \A x \in Universe :
          Cardinality({i \in 1..Len(a) : a[i] = x})
              = Cardinality({i \in 1..Len(b) : b[i] = x})

(***************************************************************************)
(* C1.  Whenever NewUint64 returns a table for the key sequence, Query of  *)
(* keys[i] returns i (0-based) and reads inside the arrays, for every      *)
(* position i, on the seed route and on the singleton route alike.         *)
(***************************************************************************)
C1_QueryReturnsIndex ==
    /\ Built =>
          \A i \in 1..N : LET r == Query(table, keys[i])
                          IN  r.ret = i - 1 /\ ~r.panic
    /\ q # NoQuery =>
          \A i \in 1..N : keys[i] = q.hash => q.ret = i - 1

\* A member of a multi-key bucket was queried and got a non-zero ordinal, in
\* a table that also holds a singleton.
C1_Witness ==
    /\ Built
    /\ q # NoQuery
    /\ IsMember(q.hash)
    /\ ~q.singleton
    /\ q.ret >= 1
    /\ \E i \in 1..N : Query(table, keys[i]).singleton

(***************************************************************************)
(* C2 as stated.  For pairwise-distinct fingerprints (1 <= N <= limit)     *)
(* NewUint64 always returns a table.                                       *)
(***************************************************************************)
C2_AlwaysSucceeds ==
    (pc = "done" /\ N >= 1 /\ N <= MaxKeys /\ Distinct(keys)) => result = "ok"

(***************************************************************************)
(* C2 amended.  For pairwise-distinct fingerprints (1 <= N <= limit)       *)
(* NewUint64 returns a table or ends in the 'no seed' failure, never in    *)
(* another error; it ends in 'no seed' only when no seed of the seed range *)
(* sends the members of the bucket being solved to pairwise distinct free  *)
(* slots, and it does so whenever two fingerprints differ in bit 63 only.  *)
(***************************************************************************)
C2_SucceedsOrNoSeed ==
    (pc = "done" /\ N >= 1 /\ N <= MaxKeys /\ Distinct(keys)) =>
        /\ result \in {"ok", "noseed"}
        /\ result = "noseed" =>
              /\ MoreMultiKey
              /\ \A s \in SeedRange : ~ValidSeed(At(h, hidx), s, values, mask)
        /\ TopBitPair(keys) => result = "noseed"

\* A build of distinct keys, two of them differing in bit 63 only, ran through
\* the whole seed range and ended in 'no seed'.
C2_Witness ==
    /\ pc = "done"
    /\ result = "noseed"
    /\ Distinct(keys)
    /\ TopBitPair(keys)
    /\ seed = Pow2(SeedBits)

C4_QueryTotal ==
    q # NoQuery =>
        /\ ~q.panic
        /\ q.ret = -1 <=> N = 0
        /\ N = 0 => q.seedIdx = -1 /\ q.valueIdx = -1
        /\ N > 0 =>
              /\ q.ret \in 0..(N - 1)
              /\ q.seedIdx \in 0..(Len(table.Seeds) - 1)
              /\ q.valueIdx \in 0..(Len(table.Values) - 1)

\* A fingerprint outside the build set was queried and its home slot is no
\* bucket's home slot.
C4_Witness ==
    /\ q # NoQuery
    /\ N >= 2
    /\ ~IsMember(q.hash)
    /\ q.seedIdx \in EmptyHomes
    /\ q.valueIdx >= 0

(***************************************************************************)
(* C5 as stated.  In a table built from N >= 1 keys, size is the smallest  *)
(* power of two >= N and every ordinal of 0..N-1 occurs exactly once in    *)
(* Values, unused slots being told apart from slots holding an ordinal.    *)
(***************************************************************************)
C5_EachOrdinalOnce ==
    (Built /\ N >= 1) =>
        /\ IsSmallestPow2(Len(table.Values), N)
        /\ \A o \in 0..(N - 1) :
              Cardinality({i \in 1..Len(table.Values) : table.Values[i] = o}) = 1

(***************************************************************************)
(* C5 amended.  In a table built from N >= 1 keys, size is the smallest    *)
(* power of two >= N, the N keys were assigned N different slots, these    *)
(* slots hold exactly the ordinals 0..N-1, one each, and each of the       *)
(* size - N slots that received no key holds 0, as the slot of ordinal 0.  *)
(***************************************************************************)
C5_AssignedSlotsBijective ==
    (Built /\ N >= 1) =>
        /\ IsSmallestPow2(Len(table.Values), N)
        /\ Len(table.Seeds) = Len(table.Values)
        /\ table.Mask = Len(table.Values) - 1
        /\ Cardinality(placed) = N
        /\ Cardinality(PlacedSlots) = N
        /\ {p[2] - 1 : p \in placed} = 0..(N - 1)
        /\ \A p \in placed : At(table.Values, p[1]) = p[2] - 1
        /\ \A i \in 0..(Len(table.Values) - 1) :
              i \notin PlacedSlots => At(table.Values, i) = 0

\* Three keys in four slots: the unused slot holds the same 0 as the slot of
\* ordinal 0.
C5_Witness ==
    /\ Built
    /\ N = 3
    /\ Cardinality({i \in 1..Len(table.Values) : table.Values[i] = 0}) = 2

(***************************************************************************)
(* C6.  NewUint64 on a non-empty sequence (within the size limit) holding  *)
(* the same fingerprint at two positions returns the build error and no    *)
(* table, straight from the duplicate check; the check sorts a copy, and   *)
(* no step of the build changes the caller's sequence.                     *)
(***************************************************************************)
C6_DuplicateRejected ==
    [][ /\ keys' = keys
        /\ (pc = "start" /\ N >= 1 /\ N <= MaxKeys /\ ~Distinct(keys)) =>
              /\ pc' = "done"
              /\ result' = "duplicate"
              /\ table' = NoTable
              /\ SortedAscending(tmp')
              /\ SameElements(tmp', keys)
      ]_vars

\* A sequence whose equal fingerprints are not adjacent was rejected, and the
\* sorted copy differs from the input.
C6_Witness ==
    /\ pc = "done"
    /\ result = "duplicate"
    /\ N >= 3
    /\ keys[1] = keys[3]
    /\ keys[1] # keys[2]
    /\ tmp # keys

(***************************************************************************)
(* C7.  The singleton phase never fails: a singleton about to be placed    *)
(* finds the free-list non-empty, the slot it pops was assigned to no key  *)
(* before, and no slot is ever assigned to two keys.                       *)
(***************************************************************************)
C7_SingletonNeverFails ==
    /\ result # "panic"
    /\ (pc = "single" /\ MoreSingletons) =>
          /\ free # <<>>
          /\ free[1] \notin PlacedSlots
    /\ Cardinality(PlacedSlots) = Cardinality(placed)

\* The last singleton has been placed, after a multi-key bucket was solved.
C7_Witness ==
    /\ pc = "single"
    /\ ~MoreSingletons
    /\ MultiHomes # {}
    /\ \E sl \in SingleHomes : At(seeds, sl) >= singletonBit

(***************************************************************************)
(* C8 as stated.  Throughout the singleton phase the free-list has exactly *)
(* as many entries as single-key buckets remain, so it is empty at the end.*)
(***************************************************************************)
C8_FreeEqualsSingles ==
    pc = "single" => Len(free) = RemainingSingles

(***************************************************************************)
(* C8 amended.  Throughout the singleton phase the free-list has as many   *)
(* entries as single-key buckets remain plus the size - N slots that no    *)
(* key will use; size - N entries are left when the table is returned, so  *)
(* the free-list ends empty exactly when N is a power of two.              *)
(***************************************************************************)
C8_FreeIsSinglesPlusSpare ==
    /\ pc = "single" => Len(free) = RemainingSingles + (size - N)
    /\ (Built /\ N >= 1) =>
          /\ Len(free) = size - N
          /\ free = <<>> <=> size = N

\* The singleton phase of a three-key build begins with one free slot more
\* than single-key buckets.
C8_Witness ==
    /\ pc = "single"
    /\ N = 3
    /\ RemainingSingles = 1
    /\ Len(free) = 2

(***************************************************************************)
(* C9.  The buckets are arranged by non-increasing size and solved in that *)
(* order; a rejected seed leaves no tentative placement and no change in   *)
(* values; the accepted seed is valid, every smaller seed of the range is  *)
(* not, and it is the value stored at the bucket's home slot; committing   *)
(* a bucket leaves every earlier assignment in place.                      *)
(***************************************************************************)
C9_SmallestSeed ==
    [][ /\ pc = "sort" => Descending(h') /\ hidx' = 0
        /\ pc = "seed" =>
              /\ seed' = seed + 1
              /\ values' = values
              /\ \A s \in 1..seed : ~ValidSeed(At(h, hidx), s, values, mask)
        /\ (pc = "seed" /\ pc' = "seed") =>
              /\ entries' = EmptyMap
              /\ ~ValidSeed(At(h, hidx), seed', values, mask)
        /\ (pc = "seed" /\ pc' = "commit") =>
              /\ seed' \in SeedRange
              /\ ValidSeed(At(h, hidx), seed', values, mask)
        /\ pc = "commit" =>
              /\ At(seeds', HomeOf(At(h, hidx)[1].hash)) = seed
              /\ hidx' = hidx + 1
              /\ \A p \in placed : At(values', p[1]) = p[2]
              /\ \A n \in 1..Len(At(h, hidx)) :
                    At(values', Slot(At(h, hidx)[n].hash, seed, mask))
                        = At(h, hidx)[n].idx
      ]_vars

\* The second multi-key bucket is about to be committed with a seed above 1,
\* after a smaller seed was rejected only because a slot was occupied.
C9_Witness ==
    /\ pc = "commit"
    /\ hidx = 1
    /\ seed > 1
    /\ \E s \in 1..(seed - 1) :
          LET sl == SlotsOf(At(h, hidx), s, mask)
          IN  /\ \A a, b \in 1..Len(sl) : a # b => sl[a] # sl[b]
              /\ \E a \in 1..Len(sl) : At(values, sl[a]) # 0

(***************************************************************************)
(* C10 as stated.  In a built table the Seeds entry of a slot that is no   *)
(* bucket's home slot is zero and no Query reads it; the home slot of a    *)
(* multi-key bucket holds a seed of the seed range with the flag clear,    *)
(* the home slot of a single-key bucket holds the flag and a payload       *)
(* below size.                                                             *)
(***************************************************************************)
SeedsWellFormed ==
    /\ \A sl \in EmptyHomes : At(table.Seeds, sl) = 0
    /\ \A sl \in MultiHomes : At(table.Seeds, sl) \in SeedRange
    /\ \A sl \in SingleHomes :
          /\ At(table.Seeds, sl) >= singletonBit
          /\ At(table.Seeds, sl) - singletonBit < size

C10_UnusedSeedsNeverRead ==
    (Built /\ N >= 1) =>
        /\ SeedsWellFormed
        /\ q # NoQuery => q.seedIdx \notin EmptyHomes

(***************************************************************************)
(* C10 amended.  As stated, except that only a Query of a fingerprint of   *)
(* the build set is sure to stay off the zero entries: a Query of another  *)
(* fingerprint reads the zero entry when its home slot is no bucket's home *)
(* slot, and then looks up the slot given by seed 0.                       *)
(***************************************************************************)
C10_UnusedSeedsNotReadForMembers ==
    (Built /\ N >= 1) =>
        /\ SeedsWellFormed
        /\ (q # NoQuery /\ IsMember(q.hash)) => q.seedIdx \notin EmptyHomes
        /\ (q # NoQuery /\ q.seedIdx \in EmptyHomes) =>
              /\ ~IsMember(q.hash)
              /\ ~q.singleton
              /\ q.valueIdx = Slot(q.hash, 0, mask)

\* A table with a multi-key and a single-key bucket, queried for a member.
C10_Witness ==
    /\ Built
    /\ MultiHomes # {}
    /\ SingleHomes # {}
    /\ EmptyHomes # {}
    /\ q # NoQuery
    /\ IsMember(q.hash)

====
